---- MODULE Spec2Model ----
(***************************************************************************)
(* A model of the multi-market trading engine: the per-market Trader loop  *)
(* (src/src/trader.rs), the TradingEngine that spawns the loops on a       *)
(* worker pool, the OrderEngine with its current-thread async runtime      *)
(* (src/src/order_engine.rs), the shared Portfolio ledger behind one mutex *)
(* (src/src/portfolio.rs), the two strategies (src/src/strategies.rs) and  *)
(* the channels and the market data generator wired in src/src/main.rs.    *)
(***************************************************************************)
EXTENDS Integers, Sequences, FiniteSets, Bags, TLC

(***************************************************************************)
(* Bounds of the model.                                                    *)
(***************************************************************************)
\* total number of inputs the environment feeds (price bars, commands,
\* order events sent through a clone of order_tx)
MaxEnv == 2
\* fill tasks that may be pending on the order runtime at once
MaxFills == 2
\* capacity of the order channel (flume::bounded(128) in main.rs, scaled)
OrderCap == 1
\* room in the order channel for the holder of a clone of order_tx, when the
\* order engine is fed without traders (flume::bounded(128) in main.rs, scaled)
SubmitCap == 2
\* capacity of the command channel (flume::bounded(128) in main.rs, scaled)
CmdCap == 1
\* capacity of a market's inbound price channel (flume::bounded(512), scaled)
PriceCap == 1

(***************************************************************************)
(* Program constants.                                                      *)
(***************************************************************************)
\* rayon::ThreadPoolBuilder::new().num_threads(2)
NumThreads == 2
\* gen_range(10.0..=20.0): the two ends stand for the range
PriceLo == 10
PriceHi == 20
\* a close drawn between the two ends
PriceMid == (PriceLo + PriceHi) \div 2

\* the fill prices, and the closes of the generated candles
Prices == {PriceLo, PriceHi}
Closes == {PriceMid}

\* a candle: its close, and a serial number that stands for its other
\* fields (open, high, low, volume, timestamp), which the model does not read
Candle(close, serial) == [close |-> close, serial |-> serial]

MarketPair(asset, base) == [asset |-> asset, base |-> base]

sui_market == MarketPair("SUI", "USD")
sol_market == MarketPair("SOL", "USD")
btc_market == MarketPair("BTC", "USD")
\* a market with the asset of sol_market and another base
sol_eur_market == MarketPair("SOL", "EUR")

\* the markets a trader may be built for
Markets == {sui_market, sol_market, btc_market, sol_eur_market}

\* the two markets main gives to the Portfolio builder
MainMarkets == {sui_market, sol_market}

\* the strategy main builds each trader with (SimpleStrat for sol_eur_market)
Strategy(m) == IF m \in {sui_market, btc_market} THEN "Rsi" ELSE "SimpleStrat"

None == "None"

\* stands where no market is meant
NoMarket == MarketPair("", "")

\* ForceExit and one of the commands the loop takes and ignores
Commands == {"ForceExit", "PortfolioStatus"}
OrderKinds == {"Long", "Short", "Close", "Reverse"}
OrderEvent(kind, m) == [kind |-> kind, market |-> m]

\* a ledger entry: the key and the Position stored under it
Entry(m, size, price) == [market |-> m, size |-> size, price |-> price]

\* no SystemCtx built
NoCtx == Entry(NoMarket, 0, 0)

\* the mutex: free, or held by a trader (of a market) or by the order engine thread
Free == [by |-> "nobody", market |-> NoMarket]
HeldByTrader(m) == [by |-> "trader", market |-> m]
HeldByEngine == [by |-> "engine", market |-> NoMarket]

\* the generator has no send pending
NoSend == [to |-> NoMarket, candle |-> Candle(0, 0)]

VARIABLES
    positions,    \* Portfolio.positions: the set of (key, Position) entries
    lock,         \* holder of the portfolio mutex
    pc,           \* per market: where its trader is
    candles,      \* per market: Trader.market_data.candles, most recent first
    ctx,          \* per market: the Position cloned into SystemCtx, or NoCtx
    signal,       \* per market: the TradeSignal about to be sent, or None
    ticker,       \* per market: whether the tick channel holds a tick
    priceQ,       \* per market: the inbound market event channel
    handle,       \* TradingEngineHandle.traders: asset -> market whose sender it holds, or NoMarket
    unspawned,    \* traders TradingEngine::start has not spawned yet, in Vec order
    stopTx,       \* whether stop_tx is still alive
    stopQ,        \* the stop channel
    cmdQ,         \* the command channel
    orderQ,       \* the order channel
    orderTx,      \* whether main's own order_tx is still alive
    eng,          \* what the order engine thread is doing
    sleeping,     \* bag of fill tasks awaiting their timer
    cancelled,    \* bag of fill tasks dropped with the runtime
    gen,          \* the market data generator: its pending send, or NoSend
    envLeft       \* inputs the environment may still feed

vars == <<positions, lock, pc, candles, ctx, signal, ticker, priceQ, handle,
          unspawned, stopTx, stopQ, cmdQ, orderQ, orderTx, eng, sleeping,
          cancelled, gen, envLeft>>

(***************************************************************************)
(* Portfolio (portfolio.rs) and the HashMap operations used on it.         *)
(***************************************************************************)
\* positions.get(&market_pair): the entries stored under the key
Get(P, m) == {e \in P : e.market = m}

\* Entry::Vacant for the key
Vacant(P, m) == Get(P, m) = {}

\* a close that clears the map (positions.clear())
CloseClears(P, m) == {}

\* Portfolio::close_position: positions.remove(market_pair)
close_position(P, m) == {e \in P : e.market # m}

\* a fill that stores its Position whatever the key holds (HashMap::insert)
InsertOverwrite(P, m, size, price) ==
    {e \in P : e.market # m} \cup {Entry(m, size, price)}

\* a fill that adds its Position without looking at the key
InsertUnchecked(P, m, size, price) == P \cup {Entry(m, size, price)}

\* if let Entry::Vacant(e) = positions.entry(m) { e.insert(Position{price,size}) }
InsertIfVacant(P, m, size, price) ==
    IF Vacant(P, m) THEN P \cup {Entry(m, size, price)} ELSE P

\* the size a fill inserts: Long 1, Short -1
FillSize(kind) == IF kind = "Long" THEN 1 ELSE -1

(***************************************************************************)
(* Strategies (strategies.rs).                                             *)
(***************************************************************************)
SimpleStrat(position, cs) ==
    IF cs = <<>> THEN None
    ELSE IF position.size = 0 THEN "Long"
    ELSE None

\* the match's first arm `_` takes every size; the `0` arm is never reached
Rsi(position, cs) ==
    IF cs = <<>> THEN None
    ELSE IF position.price > Head(cs).close THEN "Close"
    ELSE None

generate_signal(m, position, cs) ==
    IF Strategy(m) = "Rsi" THEN Rsi(position, cs) ELSE SimpleStrat(position, cs)

(***************************************************************************)
(* Channels and handles.                                                   *)
(***************************************************************************)
Assets == {m.asset : m \in Markets}

\* the markets of the traders handed to TradingEngine; main hands the same
\* markets to the generator
Configured == {m \in Markets : pc[m] # "absent"}

\* a trader that exists and has not returned holds its order_sender clone,
\* its command_recv clone and its market_event_recv
Alive(m) == pc[m] \notin {"absent", "done"}

\* a trader that occupies a worker of the pool
OnWorker(m) == pc[m] \notin {"absent", "new", "queued", "done"}

\* all senders of the order channel dropped
OrderClosed == ~orderTx /\ \A m \in Markets : ~Alive(m)

\* TradingEngine::start has returned (stop_tx dropped, handle handed out)
Started == ~stopTx

Idle == [st |-> "idle", kind |-> None, market |-> NoMarket, price |-> 0]
EngAt(st, kind, m, price) == [st |-> st, kind |-> kind, market |-> m, price |-> price]

FillTask(kind, m) == [kind |-> kind, market |-> m]

(***************************************************************************)
(* TradingEngine::start (trader.rs 156-184).                               *)
(***************************************************************************)
\* one turn of the for loop: channel created, trader spawned onto the pool,
\* sender inserted under the asset name
EngineSpawn ==
    /\ unspawned # <<>>
    /\ LET m == Head(unspawned) IN
         /\ pc' = [pc EXCEPT ![m] = "queued"]
         /\ handle' = [handle EXCEPT ![m.asset] = m]
    /\ unspawned' = Tail(unspawned)
    /\ UNCHANGED <<positions, lock, candles, ctx, signal, ticker, priceQ, stopTx,
                   stopQ, cmdQ, orderQ, orderTx, eng, sleeping, cancelled, gen, envLeft>>

\* the function returns: stop_tx goes out of scope, the handle is returned
EngineReturn ==
    /\ unspawned = <<>>
    /\ stopTx
    /\ stopTx' = FALSE
    /\ UNCHANGED <<positions, lock, pc, candles, ctx, signal, ticker, priceQ, handle,
                   unspawned, stopQ, cmdQ, orderQ, orderTx, eng, sleeping, cancelled,
                   gen, envLeft>>

(***************************************************************************)
(* Trader::start (trader.rs 71-136).                                       *)
(***************************************************************************)
\* a pool thread picks the spawned closure up
TraderStart(m) ==
    /\ pc[m] = "queued"
    /\ Cardinality({x \in Markets : OnWorker(x)}) < NumThreads
    /\ pc' = [pc EXCEPT ![m] = "stop"]
    /\ UNCHANGED <<positions, lock, candles, ctx, signal, ticker, priceQ, handle,
                   unspawned, stopTx, stopQ, cmdQ, orderQ, orderTx, eng, sleeping,
                   cancelled, gen, envLeft>>

\* the crossbeam tick channel (line 78) delivers a tick. The channel is read
\* at line 97 only, so a tick that came earlier in the cycle is the same as
\* one that comes when the loop stands before line 97
TickFire(m) ==
    /\ pc[m] = "tick"
    /\ ~ticker[m]
    /\ ticker' = [ticker EXCEPT ![m] = TRUE]
    /\ UNCHANGED <<positions, lock, pc, candles, ctx, signal, priceQ, handle,
                   unspawned, stopTx, stopQ, cmdQ, orderQ, orderTx, eng, sleeping,
                   cancelled, gen, envLeft>>

\* lines 82-87: exit_recv.try_recv()
PollStop(m) ==
    /\ pc[m] = "stop"
    /\ IF stopQ # <<>>
       THEN /\ stopQ' = Tail(stopQ)
            /\ pc' = [pc EXCEPT ![m] = IF Head(stopQ) THEN "done" ELSE "cmd"]
       ELSE /\ stopQ' = stopQ
            /\ pc' = [pc EXCEPT ![m] = "cmd"]
    /\ UNCHANGED <<positions, lock, candles, ctx, signal, ticker, priceQ, handle,
                   unspawned, stopTx, cmdQ, orderQ, orderTx, eng, sleeping, cancelled,
                   gen, envLeft>>

\* a loop that takes ForceExit off the channel like any other command
PollCmdKeepsRunning(m) ==
    /\ pc[m] = "cmd"
    /\ cmdQ' = IF cmdQ # <<>> THEN Tail(cmdQ) ELSE cmdQ
    /\ pc' = [pc EXCEPT ![m] = "bar"]
    /\ UNCHANGED <<positions, lock, candles, ctx, signal, ticker, priceQ, handle,
                   unspawned, stopTx, stopQ, orderQ, orderTx, eng, sleeping, cancelled,
                   gen, envLeft>>

\* lines 88-91: command_recv.try_recv()
PollCmd(m) ==
    /\ pc[m] = "cmd"
    /\ IF cmdQ # <<>>
       THEN /\ cmdQ' = Tail(cmdQ)
            /\ pc' = [pc EXCEPT ![m] = IF Head(cmdQ) = "ForceExit" THEN "done" ELSE "bar"]
       ELSE /\ cmdQ' = cmdQ
            /\ pc' = [pc EXCEPT ![m] = "bar"]
    /\ UNCHANGED <<positions, lock, candles, ctx, signal, ticker, priceQ, handle,
                   unspawned, stopTx, stopQ, orderQ, orderTx, eng, sleeping, cancelled,
                   gen, envLeft>>

\* a loop that puts the bar at the back of its history (candles.push_back)
PollBarPushBack(m) ==
    /\ pc[m] = "bar"
    /\ IF priceQ[m] # <<>>
       THEN /\ candles' = [candles EXCEPT ![m] = Append(@, Head(priceQ[m]))]
            /\ priceQ' = [priceQ EXCEPT ![m] = Tail(@)]
       ELSE UNCHANGED <<candles, priceQ>>
    /\ pc' = [pc EXCEPT ![m] = "tick"]
    /\ UNCHANGED <<positions, lock, ctx, signal, ticker, handle, unspawned, stopTx,
                   stopQ, cmdQ, orderQ, orderTx, eng, sleeping, cancelled, gen, envLeft>>

\* lines 93-95: market_event_recv.try_recv(), candles.push_front
PollBar(m) ==
    /\ pc[m] = "bar"
    /\ IF priceQ[m] # <<>>
       THEN /\ candles' = [candles EXCEPT ![m] = <<Head(priceQ[m])>> \o @]
            /\ priceQ' = [priceQ EXCEPT ![m] = Tail(@)]
       ELSE UNCHANGED <<candles, priceQ>>
    /\ pc' = [pc EXCEPT ![m] = "tick"]
    /\ UNCHANGED <<positions, lock, ctx, signal, ticker, handle, unspawned, stopTx,
                   stopQ, cmdQ, orderQ, orderTx, eng, sleeping, cancelled, gen, envLeft>>

\* a loop that evaluates in every cycle, tick or no tick
PollTickUngated(m) ==
    /\ pc[m] = "tick"
    /\ pc' = [pc EXCEPT ![m] = "lock"]
    /\ ticker' = [ticker EXCEPT ![m] = FALSE]
    /\ UNCHANGED <<positions, lock, candles, ctx, signal, priceQ, handle, unspawned,
                   stopTx, stopQ, cmdQ, orderQ, orderTx, eng, sleeping, cancelled,
                   gen, envLeft>>

\* line 97: ticker.try_recv().is_ok()
PollTick(m) ==
    /\ pc[m] = "tick"
    /\ pc' = [pc EXCEPT ![m] = IF ticker[m] THEN "lock" ELSE "sleep"]
    /\ ticker' = [ticker EXCEPT ![m] = FALSE]
    /\ UNCHANGED <<positions, lock, candles, ctx, signal, priceQ, handle, unspawned,
                   stopTx, stopQ, cmdQ, orderQ, orderTx, eng, sleeping, cancelled,
                   gen, envLeft>>

\* a loop that goes on to its read whether the mutex is free or not
TraderLockBarges(m) ==
    /\ pc[m] = "lock"
    /\ lock' = HeldByTrader(m)
    /\ pc' = [pc EXCEPT ![m] = "get"]
    /\ UNCHANGED <<positions, candles, ctx, signal, ticker, priceQ, handle, unspawned,
                   stopTx, stopQ, cmdQ, orderQ, orderTx, eng, sleeping, cancelled,
                   gen, envLeft>>

\* line 98: self.portfolio.lock()
TraderLock(m) ==
    /\ pc[m] = "lock"
    /\ lock = Free
    /\ lock' = HeldByTrader(m)
    /\ pc' = [pc EXCEPT ![m] = "get"]
    /\ UNCHANGED <<positions, candles, ctx, signal, ticker, priceQ, handle, unspawned,
                   stopTx, stopQ, cmdQ, orderQ, orderTx, eng, sleeping, cancelled,
                   gen, envLeft>>

\* a loop that keeps the guard when it has found its position, so that the
\* strategy runs under the lock
SnapshotKeepsLock(m) ==
    /\ pc[m] = "get"
    /\ lock = HeldByTrader(m)
    /\ IF Vacant(positions, m)
       THEN /\ pc' = [pc EXCEPT ![m] = "stop"]
            /\ ctx' = ctx
            /\ lock' = Free
       ELSE /\ pc' = [pc EXCEPT ![m] = "policy"]
            /\ ctx' = [ctx EXCEPT ![m] = CHOOSE e \in Get(positions, m) : TRUE]
            /\ lock' = lock
    /\ UNCHANGED <<positions, candles, signal, ticker, priceQ, handle, unspawned,
                   stopTx, stopQ, cmdQ, orderQ, orderTx, eng, sleeping, cancelled,
                   gen, envLeft>>

\* a loop that goes on with a flat default Position when the key is absent
\* (positions.get(..).cloned().unwrap_or_default())
SnapshotOrDefault(m) ==
    /\ pc[m] = "get"
    /\ lock = HeldByTrader(m)
    /\ pc' = [pc EXCEPT ![m] = "policy"]
    /\ ctx' = [ctx EXCEPT ![m] = IF Vacant(positions, m)
                                 THEN Entry(m, 0, 0)
                                 ELSE CHOOSE e \in Get(positions, m) : TRUE]
    /\ lock' = Free
    /\ UNCHANGED <<positions, candles, signal, ticker, priceQ, handle, unspawned,
                   stopTx, stopQ, cmdQ, orderQ, orderTx, eng, sleeping, cancelled,
                   gen, envLeft>>

\* a loop that takes its Position out of the map to read it
\* (positions.remove(&market_pair) for positions.get(&market_pair))
SnapshotTakes(m) ==
    /\ pc[m] = "get"
    /\ lock = HeldByTrader(m)
    /\ IF Vacant(positions, m)
       THEN /\ pc' = [pc EXCEPT ![m] = "stop"]
            /\ ctx' = ctx
       ELSE /\ pc' = [pc EXCEPT ![m] = "policy"]
            /\ ctx' = [ctx EXCEPT ![m] = CHOOSE e \in Get(positions, m) : TRUE]
    /\ positions' = close_position(positions, m)
    /\ lock' = Free
    /\ UNCHANGED <<candles, signal, ticker, priceQ, handle, unspawned,
                   stopTx, stopQ, cmdQ, orderQ, orderTx, eng, sleeping, cancelled,
                   gen, envLeft>>

\* lines 100-111: the read under the lock; `continue` when the key is absent
\* (the guard is dropped, the sleep of line 134 is skipped)
Snapshot(m) ==
    /\ pc[m] = "get"
    /\ lock = HeldByTrader(m)
    /\ IF Vacant(positions, m)
       THEN /\ pc' = [pc EXCEPT ![m] = "stop"]
            /\ ctx' = ctx
       ELSE /\ pc' = [pc EXCEPT ![m] = "policy"]
            /\ ctx' = [ctx EXCEPT ![m] = CHOOSE e \in Get(positions, m) : TRUE]
    /\ lock' = Free
    /\ UNCHANGED <<positions, candles, signal, ticker, priceQ, handle, unspawned,
                   stopTx, stopQ, cmdQ, orderQ, orderTx, eng, sleeping, cancelled,
                   gen, envLeft>>

\* lines 113-127: the strategy call and the match on its signal
Policy(m) ==
    /\ pc[m] = "policy"
    /\ LET sig == generate_signal(m, ctx[m], candles[m]) IN
         /\ signal' = [signal EXCEPT ![m] = sig]
         /\ pc' = [pc EXCEPT ![m] = IF sig = None THEN "sleep" ELSE "send"]
    /\ ctx' = [ctx EXCEPT ![m] = NoCtx]
    /\ UNCHANGED <<positions, lock, candles, ticker, priceQ, handle, unspawned,
                   stopTx, stopQ, cmdQ, orderQ, orderTx, eng, sleeping, cancelled,
                   gen, envLeft>>

\* what order_sender.send(event) does once it returns: the event is queued,
\* or the receiver is gone and the error is logged
SendOutcome(q, ev) == IF eng.st = "exited" THEN q ELSE Append(q, ev)

\* lines 128-131: flume's send waits while the bounded channel is full
Send(m) ==
    /\ pc[m] = "send"
    /\ IF eng.st = "exited" THEN TRUE ELSE Len(orderQ) < OrderCap
    /\ orderQ' = SendOutcome(orderQ, OrderEvent(signal[m], m))
    /\ signal' = [signal EXCEPT ![m] = None]
    /\ pc' = [pc EXCEPT ![m] = "sleep"]
    /\ UNCHANGED <<positions, lock, candles, ctx, ticker, priceQ, handle, unspawned,
                   stopTx, stopQ, cmdQ, orderTx, eng, sleeping, cancelled, gen, envLeft>>

\* line 134: sleep(10ms), then the next cycle
Sleep(m) ==
    /\ pc[m] = "sleep"
    /\ pc' = [pc EXCEPT ![m] = "stop"]
    /\ UNCHANGED <<positions, lock, candles, ctx, signal, ticker, priceQ, handle,
                   unspawned, stopTx, stopQ, cmdQ, orderQ, orderTx, eng, sleeping,
                   cancelled, gen, envLeft>>

Trader(m) ==
    \/ TraderStart(m)
    \/ PollStop(m)
    \/ PollCmd(m)
    \/ PollBar(m)
    \/ PollTick(m)
    \/ TraderLock(m)
    \/ Snapshot(m)
    \/ Policy(m)
    \/ Send(m)
    \/ Sleep(m)

(***************************************************************************)
(* OrderEngine::start (order_engine.rs 22-88): one thread, one             *)
(* current-thread runtime; the consumption loop and the fill tasks take    *)
(* turns on it and change hands only at an await.                          *)
(***************************************************************************)
\* what the match of lines 37-84 does with a received event before the next
\* await: a Close goes on to the lock, a Long or Short spawns a fill task
AfterRecv(ev) ==
    IF ev.kind = "Close" THEN EngAt("close_lock", "Close", ev.market, 0) ELSE Idle

Spawned(ev) ==
    IF ev.kind \in {"Long", "Short"}
    THEN sleeping (+) SetToBag({FillTask(ev.kind, ev.market)})
    ELSE sleeping

\* line 36: order_rx.recv_async().await yields an event. The code spawns
\* fill tasks without limit; here a Long or Short is taken only while fewer
\* than MaxFills tasks are waiting
RecvOrder ==
    /\ Started
    /\ eng.st = "idle"
    /\ orderQ # <<>>
    /\ Head(orderQ).kind \in {"Long", "Short"} => BagCardinality(sleeping) < MaxFills
    /\ eng' = AfterRecv(Head(orderQ))
    /\ sleeping' = Spawned(Head(orderQ))
    /\ orderQ' = Tail(orderQ)
    /\ UNCHANGED <<positions, lock, pc, candles, ctx, signal, ticker, priceQ, handle,
                   unspawned, stopTx, stopQ, cmdQ, orderTx, cancelled, gen, envLeft>>

\* line 40: portfolio.lock() in the Close arm
CloseLock ==
    /\ eng.st = "close_lock"
    /\ lock = Free
    /\ lock' = HeldByEngine
    /\ eng' = [eng EXCEPT !.st = "close"]
    /\ UNCHANGED <<positions, pc, candles, ctx, signal, ticker, priceQ, handle,
                   unspawned, stopTx, stopQ, cmdQ, orderQ, orderTx, sleeping, cancelled,
                   gen, envLeft>>

\* lines 41-42: close_position, drop(ptf)
CloseApply ==
    /\ eng.st = "close"
    /\ positions' = close_position(positions, eng.market)
    /\ lock' = Free
    /\ eng' = Idle
    /\ UNCHANGED <<pc, candles, ctx, signal, ticker, priceQ, handle, unspawned,
                   stopTx, stopQ, cmdQ, orderQ, orderTx, sleeping, cancelled, gen, envLeft>>

\* lines 50-53 / 68-71: a fill task's sleep of 300 ms is over, the runtime
\* polls it and it draws its price
FillWake(f, price) ==
    /\ eng.st = "idle"
    /\ BagIn(f, sleeping)
    /\ sleeping' = sleeping (-) SetToBag({f})
    /\ eng' = EngAt("fill_lock", f.kind, f.market, price)
    /\ UNCHANGED <<positions, lock, pc, candles, ctx, signal, ticker, priceQ, handle,
                   unspawned, stopTx, stopQ, cmdQ, orderQ, orderTx, cancelled, gen, envLeft>>

\* line 56 / 73: portfolio.lock() in the fill task
FillLock ==
    /\ eng.st = "fill_lock"
    /\ lock = Free
    /\ lock' = HeldByEngine
    /\ eng' = [eng EXCEPT !.st = "fill"]
    /\ UNCHANGED <<positions, pc, candles, ctx, signal, ticker, priceQ, handle,
                   unspawned, stopTx, stopQ, cmdQ, orderQ, orderTx, sleeping, cancelled,
                   gen, envLeft>>

\* lines 57-61 / 74-78: insert if vacant, drop(ptf); the task is complete
FillApply ==
    /\ eng.st = "fill"
    /\ positions' = InsertIfVacant(positions, eng.market, FillSize(eng.kind), eng.price)
    /\ lock' = Free
    /\ eng' = Idle
    /\ UNCHANGED <<pc, candles, ctx, signal, ticker, priceQ, handle, unspawned,
                   stopTx, stopQ, cmdQ, orderQ, orderTx, sleeping, cancelled, gen, envLeft>>

\* a loop that ends as soon as every sender is dropped, whatever is queued
\* (a check of order_rx.is_disconnected() at the head of the loop)
EngineExitOnClose ==
    /\ Started
    /\ eng.st = "idle"
    /\ OrderClosed
    /\ eng' = [Idle EXCEPT !.st = "exited"]
    /\ cancelled' = sleeping
    /\ sleeping' = EmptyBag
    /\ UNCHANGED <<positions, lock, pc, candles, ctx, signal, ticker, priceQ, handle,
                   unspawned, stopTx, stopQ, cmdQ, orderQ, orderTx, gen, envLeft>>

\* line 36 yields Err: every sender is dropped and the channel is drained.
\* block_on returns, the thread's closure ends and drops the runtime, and
\* with it every task that is still waiting on its timer
EngineExit ==
    /\ Started
    /\ eng.st = "idle"
    /\ orderQ = <<>>
    /\ OrderClosed
    /\ eng' = [Idle EXCEPT !.st = "exited"]
    /\ cancelled' = sleeping
    /\ sleeping' = EmptyBag
    /\ UNCHANGED <<positions, lock, pc, candles, ctx, signal, ticker, priceQ, handle,
                   unspawned, stopTx, stopQ, cmdQ, orderQ, orderTx, gen, envLeft>>

FillTasks == {FillTask(k, m) : k \in {"Long", "Short"}, m \in Markets}

OrderEngine ==
    \/ RecvOrder
    \/ CloseLock
    \/ CloseApply
    \/ \E f \in FillTasks, price \in Prices : FillWake(f, price)
    \/ FillLock
    \/ FillApply
    \/ EngineExit

(***************************************************************************)
(* The market data generator thread (main.rs 150-180).                     *)
(***************************************************************************)
\* the receiver of a market's inbound channel lives as long as its trader
\* (a trader not yet on a worker already owns it)
Receiving(m) == pc[m] # "done"

\* one turn of the loop: a market and a candle are drawn, the sender is
\* looked up under the asset name, and send() is called: it returns at once
\* when there is room (or the receiver is gone) and waits otherwise
GenTick(target, close) ==
    /\ Started
    /\ gen = NoSend
    /\ envLeft > 0
    /\ envLeft' = envLeft - 1
    /\ LET to == handle[target.asset] IN
         IF to = NoMarket \/ ~Receiving(to)
         THEN UNCHANGED <<priceQ, gen>>
         ELSE IF Len(priceQ[to]) < PriceCap
         THEN /\ priceQ' = [priceQ EXCEPT ![to] = Append(@, Candle(close, envLeft'))]
              /\ gen' = gen
         ELSE /\ gen' = [to |-> to, candle |-> Candle(close, envLeft')]
              /\ priceQ' = priceQ
    /\ UNCHANGED <<positions, lock, pc, candles, ctx, signal, ticker, handle,
                   unspawned, stopTx, stopQ, cmdQ, orderQ, orderTx, eng, sleeping,
                   cancelled>>

\* the waiting send() returns: room was made, or the receiver was dropped
GenSend ==
    /\ gen # NoSend
    /\ IF Receiving(gen.to) THEN Len(priceQ[gen.to]) < PriceCap ELSE TRUE
    /\ priceQ' = IF Receiving(gen.to)
                 THEN [priceQ EXCEPT ![gen.to] = Append(@, gen.candle)]
                 ELSE priceQ
    /\ gen' = NoSend
    /\ UNCHANGED <<positions, lock, pc, candles, ctx, signal, ticker, handle,
                   unspawned, stopTx, stopQ, cmdQ, orderQ, orderTx, eng, sleeping,
                   cancelled, envLeft>>

Generator ==
    \/ \E target \in Configured, close \in Closes : GenTick(target, close)
    \/ GenSend

(***************************************************************************)
(* The holder of main's cmd_tx and order_tx (main.rs 83-84).               *)
(***************************************************************************)
\* cmd_tx.send(c)
SendCommand(c) ==
    /\ envLeft > 0
    /\ Len(cmdQ) < CmdCap
    /\ cmdQ' = Append(cmdQ, c)
    /\ envLeft' = envLeft - 1
    /\ UNCHANGED <<positions, lock, pc, candles, ctx, signal, ticker, priceQ, handle,
                   unspawned, stopTx, stopQ, orderQ, orderTx, eng, sleeping, cancelled,
                   gen>>

\* order_tx.send(event)
SubmitOrder(kind, m) ==
    /\ envLeft > 0
    /\ orderTx
    /\ eng.st # "exited"
    /\ Len(orderQ) < SubmitCap
    /\ orderQ' = Append(orderQ, OrderEvent(kind, m))
    /\ envLeft' = envLeft - 1
    /\ UNCHANGED <<positions, lock, pc, candles, ctx, signal, ticker, priceQ, handle,
                   unspawned, stopTx, stopQ, cmdQ, orderTx, eng, sleeping, cancelled,
                   gen>>

\* order_tx is dropped
DropOrderTx ==
    /\ orderTx
    /\ orderTx' = FALSE
    /\ UNCHANGED <<positions, lock, pc, candles, ctx, signal, ticker, priceQ, handle,
                   unspawned, stopTx, stopQ, cmdQ, orderQ, eng, sleeping, cancelled,
                   gen, envLeft>>

(***************************************************************************)
(* Initial states and specifications.                                      *)
(***************************************************************************)
\* the positions a market may start with: none, flat (size 0, bought at the
\* high price) or long (size 1, bought at the low price)
InitPositions(m) == {Entry(m, 0, PriceHi), Entry(m, 1, PriceLo)}

InitLedgers ==
    {P \in SUBSET UNION {InitPositions(m) : m \in MainMarkets} :
        \A m \in MainMarkets : Cardinality(Get(P, m)) <= 1}

InitWith(traders, ledgers) ==
    /\ positions \in ledgers
    /\ lock = Free
    /\ pc = [m \in Markets |-> IF \E i \in DOMAIN traders : traders[i] = m
                               THEN "new" ELSE "absent"]
    /\ candles = [m \in Markets |-> <<>>]
    /\ ctx = [m \in Markets |-> NoCtx]
    /\ signal = [m \in Markets |-> None]
    /\ ticker = [m \in Markets |-> FALSE]
    /\ priceQ = [m \in Markets |-> <<>>]
    /\ handle = [a \in Assets |-> NoMarket]
    /\ unspawned = traders
    /\ stopTx = TRUE
    /\ stopQ = <<>>
    /\ cmdQ = <<>>
    /\ orderQ = <<>>
    /\ orderTx = TRUE
    /\ eng = Idle
    /\ sleeping = EmptyBag
    /\ cancelled = EmptyBag
    /\ gen = NoSend
    /\ envLeft = MaxEnv

\* the program as main wires it: a trader for each market, the order
\* engine, the generator; commands come from the holder of cmd_tx
Init == InitWith(<<sui_market, sol_market>>, InitLedgers)

Next ==
    \/ EngineSpawn
    \/ EngineReturn
    \/ \E m \in Markets : Trader(m)
    \/ \E m \in Markets : TickFire(m)
    \/ RecvOrder
    \/ CloseLock
    \/ CloseApply
    \/ \E f \in FillTasks, price \in Prices : FillWake(f, price)
    \/ FillLock
    \/ FillApply
    \/ Generator
    \/ \E c \in Commands : SendCommand(c)

Spec == Init /\ [][Next]_vars

\* threads are scheduled, timers fire, the runtime polls its ready tasks;
\* a thread that waits for the mutex or for room in a channel gets its turn
\* (parking_lot's mutex is eventually fair, flume serves waiting senders in
\* order)
TraderFairness(m) ==
    /\ WF_vars(Trader(m))
    /\ SF_vars(TraderLock(m))
    /\ SF_vars(Send(m))
    /\ WF_vars(TickFire(m))

EngineFairness ==
    /\ WF_vars(EngineSpawn \/ EngineReturn)
    /\ WF_vars(OrderEngine)
    /\ SF_vars(CloseLock)
    /\ SF_vars(FillLock)
    /\ SF_vars(GenSend)

Fairness == EngineFairness /\ \A m \in MainMarkets : TraderFairness(m)

FairSpec == Spec /\ Fairness

\* the end-to-end scenario: one market, SimpleStrat, no position or a flat one
InitE2E == InitWith(<<sol_market>>, {{}, {Entry(sol_market, 0, PriceHi)}})

NextE2E ==
    \/ EngineSpawn
    \/ EngineReturn
    \/ \E m \in Markets : Trader(m)
    \/ \E m \in Markets : TickFire(m)
    \/ RecvOrder
    \/ \E f \in FillTasks, price \in Prices : FillWake(f, price)
    \/ FillLock
    \/ FillApply
    \/ Generator

SpecE2E == InitE2E /\ [][NextE2E]_vars

\* the order engine alone, fed through a clone of order_tx that is dropped
\* at some point
InitOrders == InitWith(<<>>, InitLedgers)

NextOrders ==
    \/ EngineReturn
    \/ OrderEngine
    \/ \E kind \in OrderKinds, m \in MainMarkets : SubmitOrder(kind, m)
    \/ DropOrderTx

SpecOrders == InitOrders /\ [][NextOrders]_vars

FairSpecOrders == SpecOrders /\ WF_vars(EngineReturn) /\ WF_vars(OrderEngine)

\* three of main's traders, in the order of its Vec, on the pool of
\* NumThreads workers; sui_market and sol_market start with a flat position
PoolMarkets == {sui_market, sol_market, btc_market}

InitPool ==
    InitWith(<<sui_market, sol_market, btc_market>>,
             {{Entry(sui_market, 0, PriceHi), Entry(sol_market, 0, PriceHi)}})

SpecPool == InitPool /\ [][Next]_vars

FairSpecPool == SpecPool /\ EngineFairness /\ \A m \in PoolMarkets : TraderFairness(m)

\* two traders whose markets have the asset SOL and differ in base, each
\* market with a flat position
InitSameAsset ==
    InitWith(<<sol_market, sol_eur_market>>,
             {{Entry(sol_market, 0, PriceHi), Entry(sol_eur_market, 0, PriceHi)}})

SpecSameAsset == InitSameAsset /\ [][NextE2E]_vars

\* the contention for the ledger lock: main's first two traders, each with
\* a flat position, so that the Rsi loop sends a Close and the SimpleStrat
\* loop a Long; no command is sent
InitLock ==
    InitWith(<<sui_market, sol_market>>,
             {{Entry(sui_market, 0, PriceHi), Entry(sol_market, 0, PriceHi)}})

NextLock ==
    \/ EngineSpawn
    \/ EngineReturn
    \/ \E m \in Markets : Trader(m)
    \/ \E m \in Markets : TickFire(m)
    \/ RecvOrder
    \/ CloseLock
    \/ CloseApply
    \/ \E f \in FillTasks, price \in Prices : FillWake(f, price)
    \/ FillLock
    \/ FillApply
    \/ Generator

SpecLock == InitLock /\ [][NextLock]_vars

\* what the lock needs of the scheduler: a thread that holds the mutex runs
\* on to its unlock, and a thread that waits for the mutex gets it when it
\* is free again and again (parking_lot hands a starved waiter the lock)
LockFairness ==
    /\ \A m \in MainMarkets : WF_vars(Snapshot(m)) /\ SF_vars(TraderLock(m))
    /\ WF_vars(CloseApply)
    /\ WF_vars(FillApply)
    /\ SF_vars(CloseLock)
    /\ SF_vars(FillLock)

FairSpecLock == SpecLock /\ LockFairness

(***************************************************************************)
(* Properties.                                                             *)
(***************************************************************************)
Fills == {"Long", "Short"}

\* the ledger holds exactly one Position for m, of the given size
OnePosition(P, m, size) ==
    /\ Cardinality(Get(P, m)) = 1
    /\ \A e \in Get(P, m) : e.size = size

\* the order engine thread takes a step of its own
EngineSteps == eng' # eng

\* C1: end to end, with one market under SimpleStrat and a flat (size 0)
\* position: once the loop has taken bars, ticked and submitted its Long, and
\* the fill has slept its latency and done its ledger step, the ledger holds
\* exactly one Position for the market and its size is +1.
C1_EndToEndLong ==
    [][(eng.st = "fill" /\ eng.kind = "Long" /\ EngineSteps)
          => OnePosition(positions', eng.market, 1)]_vars

\* a fill task is the only work left for the order engine: nothing queued,
\* nothing else spawned, no input to come
OnlyFill(kind, m) ==
    /\ sleeping = SetToBag({FillTask(kind, m)})
    /\ eng.st = "idle"
    /\ orderQ = <<>>
    /\ envLeft = 0

\* C2: a Long or Short intent that the order engine has consumed for a
\* market without a position leads to the ledger holding exactly one
\* Position for that market, of size +1 for Long and -1 for Short.
C2_FillOpensPosition ==
    \A kind \in Fills, m \in MainMarkets :
        (OnlyFill(kind, m) /\ Vacant(positions, m))
            ~> OnePosition(positions, m, FillSize(kind))

\* C3: a fill that takes the ledger lock while its market is vacant inserts
\* its Position; a fill that finds the market occupied leaves that market's
\* entry (size and price) as it was; either way every other entry is kept
\* and the engine thread goes back to its loop without an error.
C3_InsertIfAbsent ==
    [][(eng.st = "fill" /\ EngineSteps) =>
          /\ IF Get(positions, eng.market) = {}
             THEN Get(positions', eng.market) =
                      {Entry(eng.market, IF eng.kind = "Long" THEN 1 ELSE -1, eng.price)}
             ELSE Get(positions', eng.market) = Get(positions, eng.market)
          /\ \A m \in Markets \ {eng.market} : Get(positions', m) = Get(positions, m)
          /\ eng'.st = "idle"]_vars

\* a Long fill holds the lock and finds the entry an earlier Short fill
\* inserted, at another price than its own
C3_Witness ==
    /\ eng.st = "fill"
    /\ eng.kind = "Long"
    /\ \E e \in Get(positions, eng.market) : e.size = -1 /\ e.price # eng.price

\* C4: in every reachable state the ledger holds at most one Position per
\* market, and every Position that enters the ledger has size +1 or -1.
C4_OnePerMarket ==
    /\ [](\A m \in Markets : Cardinality(Get(positions, m)) <= 1)
    /\ [][\A e \in positions' \ positions : e.size \in {1, -1}]_vars

\* both markets hold a position, one of them opened by a Short fill, and a
\* further fill is about to act on an occupied market
C4_Witness ==
    /\ \A m \in MainMarkets : Get(positions, m) # {}
    /\ \E e \in positions : e.size = -1
    /\ eng.st = "fill"

\* C5: a Close for a market without a position changes nothing in the
\* ledger; a Close for a market with a position removes that market's entry
\* and no other; either way the engine thread goes back to its loop.
C5_CloseIsLocal ==
    [][(eng.st = "close" /\ EngineSteps) =>
          /\ Get(positions', eng.market) = {}
          /\ \A m \in Markets \ {eng.market} : Get(positions', m) = Get(positions, m)
          /\ Get(positions, eng.market) = {} => positions' = positions
          /\ eng'.st = "idle"]_vars

\* a Close holds the lock for a market without a position while the other
\* market has one
C5_Witness ==
    /\ eng.st = "close"
    /\ Get(positions, eng.market) = {}
    /\ positions # {}

\* C6: once the stop channel is signalled (here: closed, stop_tx being
\* dropped when TradingEngine::start returns), every running loop observes
\* it and terminates.
C6_StopReachesEveryLoop ==
    \A m \in MainMarkets : (~stopTx /\ OnWorker(m)) ~> (pc[m] = "done")

ForceExitQueued == \E i \in DOMAIN cmdQ : cmdQ[i] = "ForceExit"

\* C7: a ForceExit sent on the command channel while the loops run is
\* observed by every one of them: all of them terminate.
C7_ForceExitReachesEveryLoop ==
    (ForceExitQueued /\ \A m \in MainMarkets : OnWorker(m))
        ~> (\A m \in MainMarkets : pc[m] = "done")

\* C8: the step in which a loop takes ForceExit (or a true stop value) off
\* its channel ends the loop, and a loop that has ended stays ended: it takes
\* no bar off its inbound channel, adds nothing to its history, builds no
\* context, holds no signal and appends no order for its market; when every
\* loop has ended no command is taken off the command channel.
C8_ExitInSameCycle ==
    [][\A m \in Markets :
          /\ (pc[m] = "cmd" /\ cmdQ # <<>> /\ Head(cmdQ) = "ForceExit" /\ pc'[m] # pc[m])
                => pc'[m] = "done"
          /\ (pc[m] = "stop" /\ stopQ # <<>> /\ Head(stopQ) /\ pc'[m] # pc[m])
                => pc'[m] = "done"
          /\ pc[m] = "done" =>
                /\ pc'[m] = "done"
                /\ candles'[m] = candles[m]
                /\ priceQ'[m] = priceQ[m]
                /\ ctx'[m] = NoCtx
                /\ signal'[m] = None
                /\ Len(orderQ') > Len(orderQ) => orderQ'[Len(orderQ')].market # m
          /\ (\A x \in Configured : pc[x] = "done") => Len(cmdQ') >= Len(cmdQ)]_vars

\* a loop that had taken a bar has ended while the other loop is still at work
C8_Witness ==
    \E m \in Markets :
        /\ pc[m] = "done"
        /\ candles[m] # <<>>
        /\ \E x \in Markets : OnWorker(x)

\* C9: no fill task that the order engine has spawned is dropped before its
\* ledger step, also when the order channel closes and the consumption loop
\* ends.
C9_NoFillAborted == BagCardinality(cancelled) = 0

\* C10: a loop that submits an intent never waits for room in the order
\* channel: its send returns at once, also when the channel is full.
C10_SendNeverWaits == \A m \in Markets : pc[m] = "send" => ENABLED Send(m)

\* C11: one loop is spawned for each configured market, and every spawned
\* loop gets a worker of the pool and starts running, whatever the other
\* loops do (none of them has to end or to give its worker up).
C11_EveryLoopStarts ==
    \A m \in PoolMarkets : (pc[m] = "queued") ~> OnWorker(m)

Reverse(q) == [i \in 1..Len(q) |-> q[Len(q) + 1 - i]]

\* the bars a market's channel has accepted, oldest first: those in the
\* loop's history followed by those still queued
Stream(m) == Reverse(candles[m]) \o priceQ[m]

C13_HandlePerMarket ==
    Started => \A m \in Configured : handle[m.asset] = m

\* C14: whoever holds the ledger lock is at its ledger step and nowhere
\* else: a loop that holds it stands at the read of its position (it is not
\* polling a channel, in the strategy, sending or sleeping), and the order
\* thread that holds it is in the ledger step of a Close or of a fill (it is
\* not awaiting the order channel). The loop gives the lock up in the step
\* that leaves the read, with or without a position, before the strategy
\* runs. The order thread takes the lock only for a Close it has received
\* or for a fill task that its timer has woken.
C14_LockDiscipline ==
    /\ [](\A m \in Markets : lock = HeldByTrader(m) <=> pc[m] = "get")
    /\ [](lock = HeldByEngine <=> eng.st \in {"close", "fill"})
    /\ [][\A m \in Markets : (pc[m] = "get" /\ pc'[m] # "get") => lock' = Free]_vars
    /\ [][(lock # HeldByEngine /\ lock' = HeldByEngine) =>
             /\ eng.st \in {"close_lock", "fill_lock"}
             /\ sleeping' = sleeping]_vars

\* a loop holds the lock and finds no position for its market (the skip
\* path) while a woken fill task waits for the lock
C14_Witness ==
    \E m \in Markets :
        /\ lock = HeldByTrader(m)
        /\ Vacant(positions, m)
        /\ eng.st = "fill_lock"

\* the processes that are inside the ledger's critical section
InCritical ==
    {m \in Markets : pc[m] = "get"} \cup
    (IF eng.st \in {"close", "fill"} THEN {NoMarket} ELSE {})

\* C15: the ledger lock never deadlocks. At most one of the loops, the Close
\* handler and the fill tasks is inside the critical section; and when
\* threads are scheduled fairly, every loop, Close handler and fill task
\* that requests the lock gets it, and every holder gives it up.
C15_LockLiveness ==
    /\ [](Cardinality(InCritical) <= 1)
    /\ \A m \in MainMarkets : (pc[m] = "lock") ~> (pc[m] = "get")
    /\ \A m \in MainMarkets : (pc[m] = "get") ~> (lock # HeldByTrader(m))
    /\ (eng.st = "close_lock") ~> (eng.st = "close")
    /\ (eng.st = "fill_lock") ~> (eng.st = "fill")
    /\ (lock = HeldByEngine) ~> (lock # HeldByEngine)

\* a loop holds the lock while the other loop and a Close request it
C15_Witness ==
    /\ \E m \in Markets : lock = HeldByTrader(m)
    /\ \E m \in Markets : pc[m] = "lock"
    /\ eng.st = "close_lock"

\* C16: a loop that, on a tick, reads the ledger and finds no entry for its
\* market ends the cycle there: it goes back to the head of the loop (it
\* does not end), builds no context, holds no signal, sends nothing, and
\* leaves the ledger and its history as they are. The strategy is entered
\* only from a read that found an entry.
C16_SkipWithoutPosition ==
    [][\A m \in Markets :
          /\ (pc[m] = "get" /\ Vacant(positions, m) /\ pc'[m] # pc[m]) =>
                /\ pc'[m] = "stop"
                /\ ctx'[m] = NoCtx
                /\ signal'[m] = None
                /\ orderQ' = orderQ
                /\ positions' = positions
                /\ candles'[m] = candles[m]
          /\ (pc[m] # "policy" /\ pc'[m] = "policy") =>
                /\ ~Vacant(positions, m)
                /\ ctx'[m] \in positions]_vars

\* a loop with a bar in its history stands at the read and its market has
\* no entry, while the ledger holds one for the other market
C16_Witness ==
    \E m \in Markets :
        /\ pc[m] = "get"
        /\ Vacant(positions, m)
        /\ candles[m] # <<>>
        /\ positions # {}

\* C17: no step of a loop changes the ledger. An entry enters the ledger
\* only in the ledger step of a Long or Short fill task, and leaves it only
\* in the ledger step of a Close; as long as a market has an entry, its
\* size and price stay what they were.
C17_LedgerWriters ==
    [][/\ \A m \in Markets : pc'[m] # pc[m] => positions' = positions
       /\ positions' \ positions # {} =>
             eng.st = "fill" /\ eng.kind \in Fills /\ EngineSteps
       /\ positions \ positions' # {} => eng.st = "close" /\ EngineSteps
       /\ \A m \in Markets :
             (~Vacant(positions, m) /\ ~Vacant(positions', m))
                => Get(positions', m) = Get(positions, m)]_vars

\* a Long fill, sent by a loop that read a flat position, holds the lock
\* for a market that the ledger still has an entry for
C17_Witness ==
    /\ eng.st = "fill"
    /\ eng.kind = "Long"
    /\ ~Vacant(positions, eng.market)
    /\ \E m \in Markets : pc[m] = "lock"

\* C18: the consumption loop ends only when the order channel is closed
\* (every sender dropped) and empty; it takes the queued intents off the
\* channel oldest first, each going to its handler as it is taken, and
\* intents are queued behind those already there; once the channel is
\* closed the loop drains it and ends, and an ended loop stays ended.
C18_DrainThenExit ==
    /\ [][/\ (eng.st # "exited" /\ eng'.st = "exited") =>
                orderQ = <<>> /\ OrderClosed
          /\ Len(orderQ') < Len(orderQ) =>
                /\ orderQ' = Tail(orderQ)
                /\ eng' = AfterRecv(Head(orderQ))
                /\ sleeping' = Spawned(Head(orderQ))
          /\ Len(orderQ') > Len(orderQ) =>
                SubSeq(orderQ', 1, Len(orderQ)) = orderQ
          /\ eng.st = "exited" => eng'.st = "exited"]_vars
    /\ OrderClosed ~> (eng.st = "exited" /\ orderQ = <<>>)

\* the channel is closed while two different intents are queued
C18_Witness ==
    /\ OrderClosed
    /\ eng.st = "idle"
    /\ Len(orderQ) = 2
    /\ orderQ[1] # orderQ[2]

\* C19: a cycle of a loop runs from the poll of the stop channel through
\* the polls of the command channel, the inbound channel and the ticker.
\* The history grows only in the poll of the inbound channel, which a cycle
\* passes once, and by one bar. The evaluation (lock, read, strategy) is
\* entered only from the poll of the ticker, by taking a pending tick off
\* it, so that one tick lets the strategy run once; a cycle that finds no
\* tick goes to its sleep.
C19_OneBarAndTickGate ==
    [][\A m \in Markets :
          /\ candles'[m] # candles[m] =>
                /\ pc[m] = "bar" /\ pc'[m] = "tick"
                /\ candles'[m] = <<Head(priceQ[m])>> \o candles[m]
                /\ priceQ'[m] = Tail(priceQ[m])
          /\ pc'[m] # pc[m] =>
                /\ pc'[m] = "bar" => pc[m] = "cmd"
                /\ pc'[m] = "cmd" => pc[m] = "stop"
                /\ pc'[m] = "lock" => pc[m] = "tick" /\ ticker[m] /\ ~ticker'[m]
                /\ pc'[m] = "get" => pc[m] = "lock"
                /\ pc'[m] = "policy" => pc[m] = "get"
                /\ (pc[m] = "tick" /\ ~ticker[m]) => pc'[m] = "sleep"
                /\ pc'[m] = "stop" => pc[m] \in {"queued", "sleep", "get"}]_vars

\* a loop with a bar in its history stands at the poll of the ticker and no
\* tick is pending, while the next bar waits in the generator's send
C19_Witness ==
    \E m \in Markets :
        /\ pc[m] = "tick"
        /\ ~ticker[m]
        /\ candles[m] # <<>>
        /\ gen # NoSend /\ gen.to = m

\* an intent for m is on its way: the strategy is about to decide on a
\* context, or the intent is held as a signal, queued, or in the hands of
\* the order engine
IntentInFlight(m) ==
    \/ ctx[m] # NoCtx
    \/ signal[m] # None
    \/ \E i \in DOMAIN orderQ : orderQ[i].market = m
    \/ eng.market = m
    \/ \E f \in DOMAIN sleeping : f.market = m

\* C20: with the loops as the only senders of intents, the markets that
\* hold a position are at any time among those that held one at the start:
\* no step adds a market to them. A loop gets a signal only from a context
\* built of an entry of its market. At the start no intent is on its way;
\* and for a market without a position and without an intent on its way, no
\* step brings a position or an intent: so a market without a position at
\* the start never gets one and never has an intent sent for it, and a
\* ledger that starts empty stays empty.
C20_NoPositionFromNothing ==
    /\ \A m \in Markets : ~IntentInFlight(m)
    /\ [][/\ \A e \in positions' \ positions : ~Vacant(positions, e.market)
          /\ \A m \in MainMarkets :
                (signal[m] = None /\ signal'[m] # None) =>
                    ctx[m] # NoCtx /\ ctx[m].market = m
          /\ \A m \in MainMarkets :
                (Vacant(positions, m) /\ ~IntentInFlight(m)) =>
                    (Vacant(positions', m) /\ ~IntentInFlight(m)')]_vars

\* sol_market, whose loop never sends a Close, has no position (so had none
\* at the start): its loop has a bar and stands at the read of the ledger,
\* while an intent of the other market is queued
C20_Witness ==
    /\ Vacant(positions, sol_market)
    /\ pc[sol_market] = "get"
    /\ candles[sol_market] # <<>>
    /\ ~Vacant(positions, sui_market)
    /\ orderQ # <<>>

\* C21: the producer's delivery never stays blocked: a send that waits for
\* room in a market's full inbound channel returns, so that the producer
\* goes on to the bars of the markets whose loops run, also when the market
\* it waits for has a loop that does not consume (not started, without a
\* worker, or ended).
C21_DeliveryNeverBlocks ==
    \A m \in PoolMarkets :
        (gen # NoSend /\ gen.to = m /\ \E x \in PoolMarkets : OnWorker(x))
            ~> (gen = NoSend)

\* the order engine has a Close for m in hand while a fill task for m still
\* waits for its timer, and the Close is the last intent submitted: nothing
\* is queued and nothing more will be sent
CloseOvertakesFill(m) ==
    /\ eng.st \in {"close_lock", "close"}
    /\ eng.market = m
    /\ \E f \in DOMAIN sleeping : f.market = m
    /\ orderQ = <<>>
    /\ envLeft = 0

\* C22: a Close is applied in the step that follows its receipt, before any
\* fill task that is pending gets its turn; a fill that then does its
\* ledger step leaves its market with a Position. So a Close for a market,
\* consumed as the last intent while a Long or Short fill for that market
\* is pending, is applied first, and the fill then puts its Position into
\* the vacant market: the market ends up positioned.
C22_FillAfterClose ==
    /\ [][/\ eng.st \in {"close_lock", "close"} =>
                /\ sleeping' = sleeping
                /\ positions' \in {positions, close_position(positions, eng.market)}
          /\ (eng.st = "fill" /\ EngineSteps) => ~Vacant(positions', eng.market)]_vars
    /\ \A m \in MainMarkets : CloseOvertakesFill(m) ~> ~Vacant(positions, m)

====
